---------------------------- MODULE Spec2Model ----------------------------
(***************************************************************************)
(* Model of jira_tracker.py: normalisation of raw Jira issues, change      *)
(* detection against the persisted snapshot, Slack payload pagination and  *)
(* the run performed by main().                                            *)
(*                                                                         *)
(* Python values are encoded as records [t, s, n]: t is the Python type,   *)
(* s the text of a string, n the numeric value counted in halves (so       *)
(* that 2.5 is n = 5 and 3.0 is n = 6).                                    *)
(***************************************************************************)
EXTENDS Integers, Sequences, FiniteSets, TLC

VARIABLES
    \* ---- send_alert -----------------------------------------------------
    payload,        \* the Block Kit payload handed to send_alert
    webhook,        \* WEBHOOK_URL is configured
    pages,          \* send_alert's local list of page payloads
    posted,         \* the requests.post calls made so far: page number, outcome
    alert_pc,       \* position inside send_alert
    page,           \* _chunk_blocks: the page being filled
    chunked,        \* _chunk_blocks: the pages closed so far
    next_block,     \* _chunk_blocks: index of the next block of the loop
    \* ---- normalize_issue ------------------------------------------------
    raw,            \* the raw issue handed to normalize_issue
    norm_out,       \* what normalize_issue returned, or the exception raised
    weight,         \* what extract_story_points returned
    norm_pc,        \* "start" before the call, "done" after it
    \* ---- detect_changes -------------------------------------------------
    diff_current,   \* the normalised issue handed to detect_changes
    diff_previous,  \* the snapshot entry handed to detect_changes
    diff_changes,   \* the list detect_changes returned
    diff_pc,        \* "start" before the call, "done" after it
    \* ---- main ------------------------------------------------------------
    pc,             \* position of the run inside main
    jira_config,    \* JIRA_DOMAIN, JIRA_EMAIL and JIRA_API_TOKEN of this run
    snapshot_file,  \* last_state.json: absent, corrupt, or the JSON written
    file_ops,       \* the accesses of this run to last_state.json, in order
    committed,      \* the run that wrote last_state.json: its raw issues, and
                    \* the keys earlier completed runs had that it did not
    issues_map,     \* get_all_issues: issues by key, in insertion order
    sprint_issues,  \* get_all_issues: what the sprint query returned
    backlog_issues, \* get_all_issues: what the backlog query returned
    issued,         \* the queries issued by this run, in order
    failed,         \* the queries of this run whose try block raised
    raw_issues,     \* main: the issues returned by get_all_issues
    new_epics,      \* main: the normalised epics
    last_state,     \* main: the snapshot loaded
    current_state,  \* main: the snapshot being built
    new_sprint,     \* main: new cards in the active sprint
    new_backlog,    \* main: new cards in the backlog
    changed,        \* main: known cards with changes
    ai_summary      \* main: what generate_ai_summary gave

chunkVars == <<payload, webhook, pages, posted, alert_pc, page, chunked, next_block>>

normVars == <<raw, norm_out, weight, norm_pc>>

diffVars == <<diff_current, diff_previous, diff_changes, diff_pc>>

queryVars == <<issues_map, sprint_issues, backlog_issues, issued, failed>>

classVars == <<last_state, current_state, new_sprint, new_backlog, changed>>

runVars ==
    <<pc, jira_config, snapshot_file, file_ops, committed, queryVars, raw_issues,
      new_epics, classVars, ai_summary>>

vars == <<chunkVars, normVars, diffVars, runVars>>

\* what an action of send_alert leaves alone
otherThanChunk == <<normVars, diffVars, runVars>>

\* what normalize_issue leaves alone
otherThanNorm == <<chunkVars, diffVars, runVars>>

\* what detect_changes leaves alone
otherThanDiff == <<chunkVars, normVars, runVars>>

\* what a step of main outside send_alert leaves alone
otherThanRun == <<normVars, diffVars>>

-----------------------------------------------------------------------------
(* Bounds of the model *)

\* longest block list handed to send_alert
MaxBlocks == 140

\* most story-point candidate fields a raw issue exposes at once
MaxPresent == 2

\* most issues one tracker query returns
MaxResults == 2

\* most issues of a run whose notification is paginated
MaxCards == 88

-----------------------------------------------------------------------------
(* Payload pagination: _chunk_blocks and send_alert *)

SLACK_MAX_BLOCKS == 48

\* send_alert takes blocks[:3] as the header (header, context, divider)
HEADER_LEN == 3

Min(a, b) == IF a < b THEN a ELSE b

\* Python slice s[:n]
Take(s, n) == SubSeq(s, 1, Min(n, Len(s)))

\* Python slice s[n:]
Drop(s, n) == SubSeq(s, n + 1, Len(s))

\* mutant of the loop body: closes the page one block early (>= for >)
chunk_step_off_by_one(pg, acc, block, header_blocks) ==
    IF Len(pg) + 1 >= SLACK_MAX_BLOCKS
    THEN [page |-> Append(header_blocks, block), pages |-> Append(acc, pg)]
    ELSE [page |-> Append(pg, block), pages |-> acc]

\* mutant of the loop body: a new page is not re-seeded with the header
chunk_step_no_header(pg, acc, block, header_blocks) ==
    IF Len(pg) + 1 > SLACK_MAX_BLOCKS
    THEN [page |-> <<block>>, pages |-> Append(acc, pg)]
    ELSE [page |-> Append(pg, block), pages |-> acc]

\* one iteration of the for loop of _chunk_blocks over `content`
chunk_step(pg, acc, block, header_blocks) ==
    IF Len(pg) + 1 > SLACK_MAX_BLOCKS
    THEN [page |-> Append(header_blocks, block), pages |-> Append(acc, pg)]
    ELSE [page |-> Append(pg, block), pages |-> acc]

\* the caption of a page: the payload's text, suffixed "(parte i/n)" when
\* part > 0
Caption(part, of) == [part |-> part, of |-> of]

\* the page payloads send_alert makes of the chunks
PagePayloads(p, chunks) ==
    [i \in 1..Len(chunks) |->
        [text   |-> IF Len(chunks) > 1 THEN Caption(i, Len(chunks)) ELSE p.text,
         blocks |-> chunks[i]]]

\* send_alert without WEBHOOK_URL: the payload is printed, nothing is posted
AlertPrintOnly ==
    /\ alert_pc = "start"
    /\ ~webhook
    /\ alert_pc' = "done"
    /\ UNCHANGED <<payload, webhook, pages, posted, page, chunked, next_block>>
    /\ UNCHANGED otherThanChunk

\* send_alert, payload within the limit: it is the only page
AlertSinglePage ==
    /\ alert_pc = "start"
    /\ webhook
    /\ Len(payload.blocks) <= SLACK_MAX_BLOCKS
    /\ pages' = <<payload>>
    /\ alert_pc' = "posting"
    /\ UNCHANGED <<payload, webhook, posted, page, chunked, next_block>>
    /\ UNCHANGED otherThanChunk

\* send_alert, payload over the limit: _chunk_blocks is entered with
\* header_blocks = blocks[:3]; content starts after the header
AlertChunkEnter ==
    /\ alert_pc = "start"
    /\ webhook
    /\ Len(payload.blocks) > SLACK_MAX_BLOCKS
    /\ page' = Take(payload.blocks, HEADER_LEN)
    /\ chunked' = <<>>
    /\ next_block' = Len(Take(payload.blocks, HEADER_LEN)) + 1
    /\ alert_pc' = "chunking"
    /\ UNCHANGED <<payload, webhook, pages, posted>>
    /\ UNCHANGED otherThanChunk

\* _chunk_blocks: one iteration of the loop
AlertChunkStep ==
    /\ alert_pc = "chunking"
    /\ next_block <= Len(payload.blocks)
    /\ LET r == chunk_step(page, chunked, payload.blocks[next_block],
                           Take(payload.blocks, HEADER_LEN))
       IN  /\ page' = r.page
           /\ chunked' = r.pages
    /\ next_block' = next_block + 1
    /\ UNCHANGED <<payload, webhook, pages, posted, alert_pc>>
    /\ UNCHANGED otherThanChunk

\* _chunk_blocks: the last page is flushed and send_alert captions the pages
AlertChunkReturn ==
    /\ alert_pc = "chunking"
    /\ next_block > Len(payload.blocks)
    /\ LET all == IF page # <<>> THEN Append(chunked, page) ELSE chunked
       IN  /\ chunked' = all
           /\ pages' = PagePayloads(payload, all)
    /\ alert_pc' = "posting"
    /\ UNCHANGED <<payload, webhook, posted, page, next_block>>
    /\ UNCHANGED otherThanChunk

\* a call of requests.post: the number of the page posted (i + 1 of the
\* enumerate) and whether it and raise_for_status went through
Post(number, ok) == [page |-> number, ok |-> ok]

\* mutant: the exception of a failed post is not caught and ends send_alert
AlertPostUncaught ==
    /\ alert_pc = "posting"
    /\ Len(posted) < Len(pages)
    /\ \E ok \in BOOLEAN :
          /\ posted' = Append(posted, Post(Len(posted) + 1, ok))
          /\ alert_pc' = IF ok THEN alert_pc ELSE "done"
    /\ UNCHANGED <<payload, webhook, pages, page, chunked, next_block>>
    /\ UNCHANGED otherThanChunk

\* one iteration of the posting loop: requests.post succeeds or raises; the
\* exception is caught and the loop goes on
AlertPost ==
    /\ alert_pc = "posting"
    /\ Len(posted) < Len(pages)
    /\ \E ok \in BOOLEAN : posted' = Append(posted, Post(Len(posted) + 1, ok))
    /\ UNCHANGED <<payload, webhook, pages, alert_pc, page, chunked, next_block>>
    /\ UNCHANGED otherThanChunk

\* the posting loop is over
AlertReturn ==
    /\ alert_pc = "posting"
    /\ Len(posted) = Len(pages)
    /\ alert_pc' = "done"
    /\ UNCHANGED <<payload, webhook, pages, posted, page, chunked, next_block>>
    /\ UNCHANGED otherThanChunk

\* blocks are told apart by their position in the payload; a payload built by
\* build_slack_payload has the three header blocks and at least the footer
ChunkStart ==
    /\ \E n \in (HEADER_LEN + 1)..MaxBlocks :
          payload = [text |-> Caption(0, 0), blocks |-> [i \in 1..n |-> i]]
    /\ webhook \in BOOLEAN
    /\ pages = <<>>
    /\ posted = <<>>
    /\ page = <<>>
    /\ chunked = <<>>
    /\ next_block = 0
    /\ alert_pc = "start"

\* send_alert is not running
ChunkIdle ==
    /\ payload = [text |-> Caption(0, 0), blocks |-> <<>>]
    /\ webhook = FALSE
    /\ pages = <<>>
    /\ posted = <<>>
    /\ page = <<>>
    /\ chunked = <<>>
    /\ next_block = 0
    /\ alert_pc = "idle"

\* send_alert has not been called by this run
AlertLocalsReset ==
    /\ payload' = [text |-> Caption(0, 0), blocks |-> <<>>]
    /\ webhook' = FALSE
    /\ pages' = <<>>
    /\ posted' = <<>>
    /\ page' = <<>>
    /\ chunked' = <<>>
    /\ next_block' = 0
    /\ alert_pc' = "idle"

-----------------------------------------------------------------------------
(* Python values *)

Val(t, s, n) == [t |-> t, s |-> s, n |-> n]

\* the key is not in the dict
Missing == Val("missing", "", 0)

None == Val("none", "", 0)

PyStr(x) == Val("str", x, 0)

PyInt(k) == Val("int", "", 2 * k)

\* a float of h halves: PyFloat(5) is 2.5, PyFloat(6) is 3.0
PyFloat(h) == Val("float", "", h)

PyBool(b) == Val("bool", "", IF b THEN 2 ELSE 0)

\* float("inf"), which json.loads yields for 1e999
Inf == Val("float", "inf", 0)

\* an exception propagating out of a call
Raise(e) == Val("raise", e, 0)

Raised(v) == v.t = "raise"

\* d.get(k, default) where v is what d holds at k
Get(v, default) == IF v.t = "missing" THEN default ELSE v

\* bool(v)
Truthy(v) ==
    CASE v.t \in {"missing", "none"} -> FALSE
      [] v.t = "str" -> v.s # ""
      [] v.t \in {"int", "float", "bool"} -> v.s = "inf" \/ v.n # 0
      [] OTHER -> TRUE

\* isinstance(v, (int, float)): bool is a subclass of int
IsNumber(v) == v.t \in {"int", "float", "bool"}

\* v > 0 for a number
Positive(v) == v.s = "inf" \/ v.n > 0

\* a == b: numbers compare by value whatever their type
PyEq(a, b) ==
    IF IsNumber(a) /\ IsNumber(b) THEN a.s = b.s /\ a.n = b.n ELSE a = b

-----------------------------------------------------------------------------
(* Field extraction *)

STORY_POINTS_FIELDS ==
    << "customfield_10016", "customfield_10028", "customfield_10034",
       "customfield_10035", "customfield_10040", "story_points" >>

\* int(val) if val == int(val) else val, for a number val
IntIfIntegral(val) ==
    IF val.s = "inf" THEN Raise("OverflowError")
    ELSE IF val.n % 2 = 0 THEN PyInt(val.n \div 2)
    ELSE val

RECURSIVE SpLoopFirstPresent(_, _)
\* mutant loop: the first candidate key that is present wins, whatever it holds
SpLoopFirstPresent(fields, i) ==
    IF i > Len(STORY_POINTS_FIELDS) THEN None
    ELSE LET val == fields.sp[STORY_POINTS_FIELDS[i]]
         IN  IF val.t # "missing" THEN val
             ELSE SpLoopFirstPresent(fields, i + 1)

extract_story_points_first_present(fields) == SpLoopFirstPresent(fields, 1)

RECURSIVE SpLoop(_, _)
\* the for loop of extract_story_points from candidate i on
SpLoop(fields, i) ==
    IF i > Len(STORY_POINTS_FIELDS) THEN None
    ELSE LET val == Get(fields.sp[STORY_POINTS_FIELDS[i]], None)
         IN  IF IsNumber(val) /\ Positive(val)
             THEN IntIfIntegral(val)
             ELSE SpLoop(fields, i + 1)

extract_story_points(fields) == SpLoop(fields, 1)

\* extract_sprint_name; customfield_10020 is held as [t, len, last, name]:
\* a list of `len` entries whose last entry is of type `last` and, when a
\* dict, holds `name` at "name"; or a dict holding `name`; or another value
extract_sprint_name(fields) ==
    LET sprint_data == fields.sprint
    IN  CASE sprint_data.t \in {"missing", "none"} -> None
          [] sprint_data.t = "list" /\ sprint_data.len = 0 -> None
          [] sprint_data.t = "list" /\ sprint_data.last = "dict" ->
                Get(sprint_data.name, None)
          [] sprint_data.t = "dict" /\ sprint_data.len = 0 -> None
          [] sprint_data.t = "dict" -> Get(sprint_data.name, None)
          [] OTHER -> None

NoEpic == [t |-> "none", key |-> None, summary |-> None]

Epic(k, sm) == [t |-> "dict", key |-> k, summary |-> sm]

EpicRaise(e) == [t |-> "raise", key |-> Raise(e), summary |-> None]

\* the legacy branch of extract_epic
EpicLink(fields) ==
    LET epic_link == Get(fields.epic_link, None)
    IN  IF Truthy(epic_link) THEN Epic(epic_link, epic_link) ELSE NoEpic

\* extract_epic; parent is held as [t, key, fields_t, issuetype_t, type_name,
\* summary]: the type of parent, what it holds at "key", the type of what it
\* holds at "fields", and inside that the type of "issuetype", its "name" and
\* the "summary"
extract_epic(fields) ==
    LET parent == fields.parent
    IN  CASE parent.t \in {"missing", "none"} -> EpicLink(fields)
          [] parent.t = "str" -> EpicRaise("AttributeError")
          [] parent.t = "dict" /\ parent.fields_t \in {"none", "str"} ->
                EpicRaise("AttributeError")
          [] parent.t = "dict" /\ parent.fields_t = "dict"
                /\ parent.issuetype_t \in {"none", "str"} ->
                EpicRaise("AttributeError")
          [] OTHER ->
                LET parent_type ==
                        IF parent.fields_t = "missing" \/ parent.issuetype_t = "missing"
                        THEN PyStr("")
                        ELSE Get(parent.type_name, PyStr(""))
                    pkey == Get(parent.key, None)
                IN  IF parent_type = PyStr("Epic")
                    THEN Epic(pkey,
                              IF parent.fields_t = "missing" THEN pkey
                              ELSE Get(parent.summary, pkey))
                    ELSE EpicLink(fields)

\* what fields.get(k, {}).get("name", default) gives for v = [t, name]
NameOf(v, default) ==
    CASE v.t = "missing" -> default
      [] v.t = "dict" -> Get(v.name, default)
      [] OTHER -> Raise("AttributeError")

\* what `person.get("displayName") if person else None` gives for
\* person = [t, len, displayName]: a dict of len keys holding displayName, or
\* a string whose text is held in displayName
DisplayName(person) ==
    CASE person.t \in {"missing", "none"} -> None
      [] person.t = "dict" /\ person.len = 0 -> None
      [] person.t = "dict" -> Get(person.displayName, None)
      [] person.t = "str" /\ person.displayName.s = "" -> None
      [] OTHER -> Raise("AttributeError")

\* the fields of a dict that holds nothing: issue.get("fields", {}) without "fields"
EmptyFields ==
    [ summary   |-> Missing,
      status    |-> [t |-> "missing", name |-> Missing],
      issuetype |-> [t |-> "missing", name |-> Missing],
      assignee  |-> [t |-> "missing", len |-> 0, displayName |-> Missing],
      reporter  |-> [t |-> "missing", len |-> 0, displayName |-> Missing],
      sprint    |-> [t |-> "missing", len |-> 0, last |-> "", name |-> Missing],
      parent    |-> [t |-> "missing", key |-> Missing, fields_t |-> "missing",
                     issuetype_t |-> "missing", type_name |-> Missing,
                     summary |-> Missing],
      epic_link |-> Missing,
      sp        |-> [f \in {STORY_POINTS_FIELDS[i] : i \in 1..Len(STORY_POINTS_FIELDS)}
                        |-> Missing] ]

\* a normalised issue, or the exception normalize_issue raised
Issue(exc, key, summary, status, issuetype, assignee, reporter, sp, sprint, epic) ==
    [ exc |-> exc, key |-> key, summary |-> summary, status |-> status,
      issuetype |-> issuetype, assignee |-> assignee, reporter |-> reporter,
      story_points |-> sp, sprint |-> sprint, epic |-> epic ]

IssueRaise(e) == Issue(e, None, None, None, None, None, None, None, None, NoEpic)

\* the first exception among the values computed, in the order the code
\* computes them, or "" when none raised
FirstRaise(vs) ==
    IF \E i \in 1..Len(vs) : Raised(vs[i])
    THEN vs[CHOOSE i \in 1..Len(vs) :
                /\ Raised(vs[i])
                /\ \A j \in 1..(i - 1) : ~Raised(vs[j])].s
    ELSE ""

\* normalize_issue(issue); issue is held as [key, fields_t, fields]
normalize_issue(issue) ==
    IF issue.fields_t \notin {"missing", "dict"}
    THEN IssueRaise("AttributeError")
    ELSE
    LET fields == IF issue.fields_t = "missing" THEN EmptyFields ELSE issue.fields
        sprint_name == extract_sprint_name(fields)
        epic == extract_epic(fields)
        sp == extract_story_points(fields)
        key == IF issue.key.t = "missing" THEN Raise("KeyError") ELSE issue.key
        summary == Get(fields.summary, PyStr("Sem resumo"))
        status == NameOf(fields.status, PyStr("Desconhecido"))
        issuetype == NameOf(fields.issuetype, PyStr(""))
        assignee == DisplayName(fields.assignee)
        reporter == DisplayName(fields.reporter)
        exc == FirstRaise(<<epic.key, sp, key, status, issuetype, assignee, reporter>>)
    IN  IF exc # "" THEN IssueRaise(exc)
        ELSE Issue("", key, summary, status, issuetype, assignee, reporter,
                   sp, sprint_name, epic)

-----------------------------------------------------------------------------
(* normalize_issue and extract_story_points applied to raw issues *)

FieldNames == {STORY_POINTS_FIELDS[i] : i \in 1..Len(STORY_POINTS_FIELDS)}

\* what a candidate field that is present may hold: null, zero, a negative,
\* positive integers and floats, a string, true, infinity
SpPresent ==
    { None, PyInt(0), PyInt(0 - 1), PyInt(5), PyFloat(5), PyFloat(6),
      PyStr("8"), PyBool(TRUE), Inf }

\* the candidate fields of raw issues exposing at most MaxPresent of them
SpFieldSets ==
    UNION { { [f \in FieldNames |-> IF f \in S THEN g[f] ELSE Missing] :
                g \in [S -> SpPresent] } :
            S \in {T \in SUBSET FieldNames : Cardinality(T) <= MaxPresent} }

RawIssue(key, fields_t, fields) == [key |-> key, fields_t |-> fields_t, fields |-> fields]

NameShape(t, name) == [t |-> t, name |-> name]

PersonShape(t, len, displayName) == [t |-> t, len |-> len, displayName |-> displayName]

SprintShape(t, len, last, name) == [t |-> t, len |-> len, last |-> last, name |-> name]

ParentShape(t, key, fields_t, issuetype_t, type_name, summary) ==
    [ t |-> t, key |-> key, fields_t |-> fields_t, issuetype_t |-> issuetype_t,
      type_name |-> type_name, summary |-> summary ]

StatusShapes ==
    { NameShape("missing", Missing), NameShape("none", Missing),
      NameShape("str", Missing), NameShape("dict", Missing),
      NameShape("dict", None), NameShape("dict", PyStr("Open")) }

IssuetypeShapes == { NameShape("missing", Missing), NameShape("dict", PyStr("Story")) }

AssigneeShapes ==
    { PersonShape("missing", 0, Missing), PersonShape("none", 0, Missing),
      PersonShape("dict", 1, PyStr("ana")), PersonShape("str", 0, PyStr("ana")) }

ReporterShapes ==
    { PersonShape("none", 0, Missing), PersonShape("dict", 1, PyStr("bob")) }

SprintShapes ==
    { SprintShape("missing", 0, "", Missing), SprintShape("none", 0, "", Missing),
      SprintShape("list", 0, "", Missing),
      SprintShape("list", 2, "dict", PyStr("S1")),
      SprintShape("list", 1, "str", Missing),
      SprintShape("dict", 1, "", PyStr("S1")) }

ParentShapes ==
    { ParentShape("missing", Missing, "missing", "missing", Missing, Missing),
      ParentShape("none", Missing, "missing", "missing", Missing, Missing),
      ParentShape("str", Missing, "missing", "missing", Missing, Missing),
      ParentShape("dict", PyStr("E-1"), "missing", "missing", Missing, Missing),
      ParentShape("dict", PyStr("E-1"), "none", "missing", Missing, Missing),
      ParentShape("dict", PyStr("E-1"), "dict", "none", Missing, Missing),
      ParentShape("dict", PyStr("E-1"), "dict", "dict", PyStr("Epic"), PyStr("Login")),
      ParentShape("dict", Missing, "dict", "dict", PyStr("Epic"), Missing),
      ParentShape("dict", PyStr("T-1"), "dict", "dict", PyStr("Story"), PyStr("Task")) }

\* a well-formed fields dict
BaseFields ==
    [ EmptyFields EXCEPT
        !.summary = PyStr("Bug"),
        !.status = NameShape("dict", PyStr("Open")),
        !.assignee = PersonShape("dict", 1, PyStr("ana")) ]

\* fields dicts varying summary, status, assignee and parent in every shape
\* above, and fields dicts varying the other fields in every shape above
ShapedFields ==
    { [ BaseFields EXCEPT !.summary = sm, !.status = st, !.assignee = asg,
                           !.parent = par ] :
      sm \in {Missing, None, PyStr("Bug")}, st \in StatusShapes,
      asg \in AssigneeShapes, par \in ParentShapes }
    \cup
    { [ BaseFields EXCEPT !.issuetype = it, !.reporter = rep, !.sprint = spr,
                           !.epic_link = el,
                           !.sp[STORY_POINTS_FIELDS[1]] = sp1 ] :
      it \in IssuetypeShapes, rep \in ReporterShapes, spr \in SprintShapes,
      el \in {Missing, PyStr("E-9")}, sp1 \in {Missing, PyInt(5), Inf} }

KeyShapes == {Missing, None, PyStr("K-1")}

NormRaws ==
    { RawIssue(k, "dict", f) : k \in KeyShapes, f \in ShapedFields }
    \cup { RawIssue(k, t, EmptyFields) : k \in KeyShapes, t \in {"missing", "none"} }

WeightRaws ==
    { RawIssue(PyStr("K-1"), "dict", [EmptyFields EXCEPT !.sp = sp]) : sp \in SpFieldSets }

\* no normalisation is under way
NormIdle ==
    /\ raw = RawIssue(Missing, "missing", EmptyFields)
    /\ norm_out = IssueRaise("")
    /\ weight = None
    /\ norm_pc = "idle"

\* the call normalize_issue(raw)
Normalize ==
    /\ norm_pc = "start"
    /\ norm_out' = normalize_issue(raw)
    /\ norm_pc' = "done"
    /\ UNCHANGED <<raw, weight>>
    /\ UNCHANGED otherThanNorm

\* the call extract_story_points(raw["fields"])
ExtractStoryPoints ==
    /\ norm_pc = "start"
    /\ weight' = extract_story_points(raw.fields)
    /\ norm_pc' = "done"
    /\ UNCHANGED <<raw, norm_out>>
    /\ UNCHANGED otherThanNorm

-----------------------------------------------------------------------------
(* Change detection *)

\* the tracked fields kept per key in the snapshot (current_state[key])
Entry(status, summary, assignee, sp, sprint, epic) ==
    [ status |-> status, summary |-> summary, assignee |-> assignee,
      story_points |-> sp, sprint |-> sprint, epic |-> epic ]

\* one string appended to `changes`: the field it is about, the wording used
\* ("set": assigned / defined / entered, "removed", "transition": a -> b) and
\* the values the text shows (Missing for a value the text does not show)
Change(field, kind, prev, cur) ==
    [field |-> field, kind |-> kind, prev |-> prev, cur |-> cur]

\* wording and values shown of every line of detect_changes that appends
ShownChange(c) ==
    CASE c.kind = "set" -> [c EXCEPT !.prev = Missing]
      [] c.kind = "removed" -> [c EXCEPT !.cur = Missing]
      [] OTHER -> c

\* mutant: a removed estimate is worded as a transition
StoryPointsChangeNoRemoved(current, previous) ==
    LET curr_sp == current.story_points
        prev_sp == Get(previous.story_points, None)
    IN  IF PyEq(curr_sp, prev_sp) THEN <<>>
        ELSE IF prev_sp = None
             THEN <<ShownChange(Change("story_points", "set", prev_sp, curr_sp))>>
             ELSE <<ShownChange(Change("story_points", "transition", prev_sp, curr_sp))>>

\* the status block of detect_changes
StatusChange(current, previous) ==
    IF PyEq(current.status, Get(previous.status, None)) THEN <<>>
    ELSE <<ShownChange(Change("status", "transition",
                              Get(previous.status, PyStr("?")), current.status))>>

\* the assignee block of detect_changes
AssigneeChange(current, previous) ==
    LET curr_assignee == current.assignee
        prev_assignee == Get(previous.assignee, None)
    IN  IF PyEq(curr_assignee, prev_assignee) THEN <<>>
        ELSE IF ~Truthy(prev_assignee)
             THEN <<ShownChange(Change("assignee", "set", prev_assignee, curr_assignee))>>
             ELSE IF ~Truthy(curr_assignee)
                  THEN <<ShownChange(Change("assignee", "removed", prev_assignee, curr_assignee))>>
                  ELSE <<ShownChange(Change("assignee", "transition", prev_assignee, curr_assignee))>>

\* the story points block of detect_changes
StoryPointsChange(current, previous) ==
    LET curr_sp == current.story_points
        prev_sp == Get(previous.story_points, None)
    IN  IF PyEq(curr_sp, prev_sp) THEN <<>>
        ELSE IF prev_sp = None
             THEN <<ShownChange(Change("story_points", "set", prev_sp, curr_sp))>>
             ELSE IF curr_sp = None
                  THEN <<ShownChange(Change("story_points", "removed", prev_sp, curr_sp))>>
                  ELSE <<ShownChange(Change("story_points", "transition", prev_sp, curr_sp))>>

\* the sprint block of detect_changes
SprintChange(current, previous) ==
    LET curr_sprint == current.sprint
        prev_sprint == Get(previous.sprint, None)
    IN  IF PyEq(curr_sprint, prev_sprint) THEN <<>>
        ELSE IF Truthy(curr_sprint) /\ ~Truthy(prev_sprint)
             THEN <<ShownChange(Change("sprint", "set", prev_sprint, curr_sprint))>>
             ELSE IF ~Truthy(curr_sprint) /\ Truthy(prev_sprint)
                  THEN <<ShownChange(Change("sprint", "removed", prev_sprint, curr_sprint))>>
                  ELSE <<ShownChange(Change("sprint", "transition", prev_sprint, curr_sprint))>>

\* detect_changes(current, previous)
detect_changes(current, previous) ==
    StatusChange(current, previous) \o AssigneeChange(current, previous)
        \o StoryPointsChange(current, previous) \o SprintChange(current, previous)

\* values normalize_issue gives to status, assignee, story_points, sprint
DiffStatuses == {None, PyStr("Open"), PyStr("Done")}

DiffNames == {None, PyStr(""), PyStr("ana"), PyStr("bob")}

DiffPoints == {None, PyInt(3), PyFloat(5)}

DiffSprints == {None, PyStr(""), PyStr("S1"), PyStr("S2")}

DiffCurrents ==
    { Issue("", PyStr("K-1"), PyStr("Bug"), st, PyStr(""), asg, None, sp, spr, NoEpic) :
      st \in DiffStatuses, asg \in DiffNames, sp \in DiffPoints, spr \in DiffSprints }

\* snapshot entries: what a run stored, or an entry of an older snapshot
\* format in which a tracked field is not there
DiffPreviouses ==
    { Entry(st, PyStr("Bug"), asg, sp, spr, NoEpic) :
      st \in DiffStatuses \cup {Missing}, asg \in DiffNames \cup {Missing},
      sp \in DiffPoints \cup {Missing, PyInt(0)}, spr \in DiffSprints \cup {Missing} }

\* no change detection is under way
DiffIdle ==
    /\ diff_current = IssueRaise("")
    /\ diff_previous = Entry(None, None, None, None, None, NoEpic)
    /\ diff_changes = <<>>
    /\ diff_pc = "idle"

\* the call detect_changes(current, previous)
DetectChanges ==
    /\ diff_pc = "start"
    /\ diff_changes' = detect_changes(diff_current, diff_previous)
    /\ diff_pc' = "done"
    /\ UNCHANGED <<diff_current, diff_previous>>
    /\ UNCHANGED otherThanDiff

-----------------------------------------------------------------------------
(* Persisted snapshot: save_current_state and load_last_state *)

\* a dict holding nothing
EmptyDict == [k \in {} |-> None]

\* the JSON text of a Python value (null for None) and back
JsonValue(v) == IF v.t = "none" THEN [v EXCEPT !.t = "null"] ELSE v

PyValue(j) == IF j.t = "null" THEN [j EXCEPT !.t = "none"] ELSE j

JsonEpic(e) ==
    IF e.t = "none" THEN [t |-> "null", key |-> JsonValue(None), summary |-> JsonValue(None)]
    ELSE [t |-> e.t, key |-> JsonValue(e.key), summary |-> JsonValue(e.summary)]

PyEpic(j) ==
    IF j.t = "null" THEN NoEpic
    ELSE [t |-> j.t, key |-> PyValue(j.key), summary |-> PyValue(j.summary)]

\* the name json.dump writes for a dict key
JsonKey(k) ==
    CASE k.t = "str" -> k.s
      [] k.t = "none" -> "null"
      [] OTHER -> "?"

JsonEntry(e) ==
    Entry(JsonValue(e.status), JsonValue(e.summary), JsonValue(e.assignee),
          JsonValue(e.story_points), JsonValue(e.sprint), JsonEpic(e.epic))

PyEntry(j) ==
    Entry(PyValue(j.status), PyValue(j.summary), PyValue(j.assignee),
          PyValue(j.story_points), PyValue(j.sprint), PyEpic(j.epic))

\* json.dump(state): state is a function from keys to entries
JsonDump(state) ==
    [name \in {JsonKey(k) : k \in DOMAIN state} |->
        JsonEntry(state[CHOOSE k \in DOMAIN state : JsonKey(k) = name])]

\* json.load of a document written by json.dump
JsonLoad(doc) == [name \in DOMAIN doc |-> PyEntry(doc[name])]

File(state, data) == [state |-> state, data |-> data]

\* load_last_state()
load_last_state(file) ==
    IF file.state = "ok" THEN JsonLoad(file.data) ELSE EmptyDict

\* the document `doc` with the entries of `old` for the names it does not have
Merged(doc, old) ==
    [name \in DOMAIN doc \cup DOMAIN old |->
        IF name \in DOMAIN doc THEN doc[name] ELSE old[name]]

\* mutant: the file is updated with the state, not replaced by it
save_current_state_update(state) ==
    File("ok", IF snapshot_file.state = "ok"
               THEN Merged(JsonDump(state), snapshot_file.data)
               ELSE JsonDump(state))

\* save_current_state(state)
save_current_state(state) == File("ok", JsonDump(state))

-----------------------------------------------------------------------------
(* Tracker queries: get_all_issues *)

Keys == {"K-1", "K-2"}

\* raw issues the tracker returns in a run: status Open or Done, in sprint S1
\* or in no sprint, or with a null status
RunRaw(k, variant) ==
    RawIssue(PyStr(k), "dict",
        CASE variant = "open_s1" ->
                [BaseFields EXCEPT !.sprint = SprintShape("list", 1, "dict", PyStr("S1"))]
          [] variant = "done_s1" ->
                [BaseFields EXCEPT !.sprint = SprintShape("list", 1, "dict", PyStr("S1")),
                                   !.status = NameShape("dict", PyStr("Done"))]
          [] variant = "open_backlog" -> BaseFields
          [] OTHER -> [BaseFields EXCEPT !.status = NameShape("none", Missing)])

RunRaws == {RunRaw(k, v) : k \in Keys, v \in {"open_s1", "done_s1", "open_backlog", "null_status"}}

\* the i-th key of a run that returns many issues
BulkKey(i) == "K-" \o ToString(i)

\* what get_all_issues returns when the sprint query finds n open issues
BulkRaws(n) == [i \in 1..n |-> RunRaw(BulkKey(i), "open_s1")]

\* one issue K-1 as the tracker returns it: Open or Done, in sprint S1 or in
\* no sprint, or with a status object that has no name
CardRaws ==
    { RunRaw("K-1", v) : v \in {"open_s1", "done_s1", "open_backlog"} }
    \cup { RawIssue(PyStr("K-1"), "dict",
                    [BaseFields EXCEPT !.status = NameShape("dict", Missing)]) }

\* the keys of a list of raw issues
KeysOf(issues) == {issues[i].key : i \in 1..Len(issues)}

\* what a query may return: up to MaxResults issues, no key twice
QueryResults ==
    UNION { {r \in [1..n -> RunRaws] : Cardinality(KeysOf(r)) = n} : n \in 0..MaxResults }

\* what the epic query may return
EpicResults ==
    { <<>>,
      <<RawIssue(PyStr("E-1"), "dict", [BaseFields EXCEPT !.summary = PyStr("Login")])>>,
      <<RawIssue(PyStr("E-1"), "dict",
                 [BaseFields EXCEPT !.status = NameShape("none", Missing)])>> }

\* no run has written last_state.json
NoCommit == [run |-> FALSE, records |-> <<>>, dropped |-> {}]

\* a run over `records` has written last_state.json: the keys of completed
\* runs that are not among its records are the dropped ones
Commit(before, records) ==
    [ run |-> TRUE, records |-> records,
      dropped |-> (before.dropped \cup KeysOf(before.records)) \ KeysOf(records) ]

\* mutant: a key already in the map keeps its record (setdefault)
DictSetKeepFirst(m, i) ==
    IF \E n \in 1..Len(m) : m[n].key = i.key THEN m ELSE Append(m, i)

\* issues_map[i["key"]] = i on an insertion-ordered dict
DictSet(m, i) ==
    IF \E n \in 1..Len(m) : m[n].key = i.key
    THEN [n \in 1..Len(m) |-> IF m[n].key = i.key THEN i ELSE m[n]]
    ELSE Append(m, i)

RECURSIVE InsertAll(_, _, _)
\* for i in issues: issues_map[i["key"]] = i, from position n on
InsertAll(m, issues, n) ==
    IF n > Len(issues) THEN m
    ELSE InsertAll(DictSet(m, issues[n]), issues, n + 1)

RECURSIVE NormalizeAll(_, _)
\* [normalize_issue(e) for e in epic_issues] from position n on
NormalizeAll(issues, n) ==
    IF n > Len(issues) THEN <<>>
    ELSE <<normalize_issue(issues[n])>> \o NormalizeAll(issues, n + 1)

\* the locals of a run before it starts
RunLocalsReset ==
    /\ issues_map' = <<>>
    /\ sprint_issues' = <<>>
    /\ backlog_issues' = <<>>
    /\ issued' = <<>>
    /\ failed' = {}
    /\ file_ops' = <<>>
    /\ raw_issues' = <<>>
    /\ new_epics' = <<>>
    /\ last_state' = EmptyDict
    /\ current_state' = EmptyDict
    /\ new_sprint' = <<>>
    /\ new_backlog' = <<>>
    /\ changed' = <<>>
    /\ ai_summary' = "none"

\* the settings read from the environment when the module is loaded
Config(domain, email, token) == [domain |-> domain, email |-> email, token |-> token]

\* JIRA_DOMAIN is "" when unset or when nothing is left of it after the
\* scheme and the .atlassian.net suffix are stripped; JIRA_EMAIL and
\* JIRA_API_TOKEN are None when unset
ConfigValues ==
    { Config(d, e, t) : d \in {PyStr(""), PyStr("acme")},
                        e \in {None, PyStr(""), PyStr("bot@acme.io")},
                        t \in {None, PyStr(""), PyStr("token")} }

\* mutant: one setting is enough (any for all)
ConfigCompleteAny(cfg) ==
    Truthy(cfg.domain) \/ Truthy(cfg.email) \/ Truthy(cfg.token)

\* all([JIRA_DOMAIN, JIRA_EMAIL, JIRA_API_TOKEN])
ConfigComplete(cfg) ==
    Truthy(cfg.domain) /\ Truthy(cfg.email) /\ Truthy(cfg.token)

\* main is entered and the required settings are there
MainStart ==
    /\ pc \in {"idle", "done", "aborted", "crashed"}
    /\ \E cfg \in ConfigValues : ConfigComplete(cfg) /\ jira_config' = cfg
    /\ pc' = "query_sprint"
    /\ RunLocalsReset
    /\ UNCHANGED <<snapshot_file, committed>>
    /\ AlertLocalsReset
    /\ UNCHANGED otherThanRun

\* main is entered and a required setting is missing: it returns at once
MainConfigMissing ==
    /\ pc \in {"idle", "done", "aborted", "crashed"}
    /\ \E cfg \in ConfigValues : ~ConfigComplete(cfg) /\ jira_config' = cfg
    /\ pc' = "aborted"
    /\ RunLocalsReset
    /\ UNCHANGED <<snapshot_file, committed>>
    /\ AlertLocalsReset
    /\ UNCHANGED otherThanRun

\* mutant: an exception of the sprint query is not caught
QuerySprintUncaught ==
    /\ pc = "query_sprint"
    /\ issued' = Append(issued, "sprint")
    /\ \/ \E res \in QueryResults :
             /\ sprint_issues' = res
             /\ issues_map' = InsertAll(issues_map, res, 1)
             /\ pc' = "query_backlog"
             /\ UNCHANGED failed
       \/ /\ failed' = failed \cup {"sprint"}
          /\ pc' = "crashed"
          /\ UNCHANGED <<sprint_issues, issues_map>>
    /\ UNCHANGED <<jira_config, snapshot_file, file_ops, committed, backlog_issues,
                   raw_issues, new_epics, classVars, ai_summary>>
    /\ UNCHANGED <<chunkVars, otherThanRun>>

\* get_all_issues, sprint query: its issues enter issues_map, or _search
\* raises and the exception is caught
QuerySprint ==
    /\ pc = "query_sprint"
    /\ issued' = Append(issued, "sprint")
    /\ \/ \E res \in QueryResults :
             /\ sprint_issues' = res
             /\ issues_map' = InsertAll(issues_map, res, 1)
             /\ UNCHANGED failed
       \/ /\ failed' = failed \cup {"sprint"}
          /\ UNCHANGED <<sprint_issues, issues_map>>
    /\ pc' = "query_backlog"
    /\ UNCHANGED <<jira_config, snapshot_file, file_ops, committed, backlog_issues,
                   raw_issues, new_epics, classVars, ai_summary>>
    /\ UNCHANGED <<chunkVars, otherThanRun>>

\* get_all_issues, backlog query
QueryBacklog ==
    /\ pc = "query_backlog"
    /\ issued' = Append(issued, "backlog")
    /\ \/ \E res \in QueryResults :
             /\ backlog_issues' = res
             /\ issues_map' = InsertAll(issues_map, res, 1)
             /\ UNCHANGED failed
       \/ /\ failed' = failed \cup {"backlog"}
          /\ UNCHANGED <<backlog_issues, issues_map>>
    /\ pc' = "query_epics"
    /\ UNCHANGED <<jira_config, snapshot_file, file_ops, committed, sprint_issues,
                   raw_issues, new_epics, classVars, ai_summary>>
    /\ UNCHANGED <<chunkVars, otherThanRun>>

\* get_all_issues, epic query: the epics are normalised inside the try
\* block, so one that does not normalise counts as a failed query; then
\* get_all_issues returns list(issues_map.values()) and new_epics
QueryEpics ==
    /\ pc = "query_epics"
    /\ issued' = Append(issued, "epics")
    /\ \/ \E res \in EpicResults :
             LET epics == NormalizeAll(res, 1)
             IN  IF \E n \in 1..Len(epics) : epics[n].exc # ""
                 THEN /\ failed' = failed \cup {"epics"}
                      /\ new_epics' = <<>>
                 ELSE /\ new_epics' = epics
                      /\ UNCHANGED failed
       \/ /\ failed' = failed \cup {"epics"}
          /\ new_epics' = <<>>
    /\ raw_issues' = issues_map
    /\ issues_map' = <<>>
    /\ sprint_issues' = <<>>
    /\ backlog_issues' = <<>>
    /\ pc' = "classify"
    /\ UNCHANGED <<jira_config, snapshot_file, file_ops, committed, classVars, ai_summary>>
    /\ UNCHANGED <<chunkVars, otherThanRun>>

-----------------------------------------------------------------------------
(* Classification: the loop of main over raw_issues *)

\* an element of new_sprint, new_backlog or changed; a new card has no
\* "changes" and no "prev_status" (Missing)
Item(card, changes, prev_status) ==
    [issue |-> card, changes |-> changes, prev_status |-> prev_status]

\* mutant: the sprint is left out of what is stored for a key
CurrentEntryNoSprint(card) ==
    Entry(card.status, card.summary, card.assignee, card.story_points,
          None, card.epic)

\* current_state[key] = {...}: what is stored for a key
CurrentEntry(card) ==
    Entry(card.status, card.summary, card.assignee, card.story_points,
          card.sprint, card.epic)

\* state[key] = entry on a dict
DictPut(state, key, entry) ==
    [k \in DOMAIN state \cup {key} |-> IF k = key THEN entry ELSE state[k]]

\* key in last_state: the keys of a loaded snapshot are strings
KeyIn(key, last) == key.t = "str" /\ key.s \in DOMAIN last

\* the locals of main when the loop starts
ClassifyStart ==
    [ exc |-> "", current_state |-> EmptyDict, new_sprint |-> <<>>,
      new_backlog |-> <<>>, changed |-> <<>> ]

\* mutant: the new snapshot starts from the one loaded
ClassifyStartFromLast(last) ==
    [ exc |-> "",
      current_state |-> [k \in {PyStr(name) : name \in DOMAIN last} |-> last[k.s]],
      new_sprint |-> <<>>, new_backlog |-> <<>>, changed |-> <<>> ]

\* current_state = {} and the three empty lists
ClassifyLocals(last) == ClassifyStart

\* mutant: a new card goes to the sprint list when it has no sprint
NewCardSwapped(acc, card) ==
    IF ~Truthy(card.sprint)
    THEN [acc EXCEPT !.new_sprint = Append(@, Item(card, <<>>, Missing))]
    ELSE [acc EXCEPT !.new_backlog = Append(@, Item(card, <<>>, Missing))]

\* the branch of a key that is not in last_state
NewCard(acc, card) ==
    IF Truthy(card.sprint)
    THEN [acc EXCEPT !.new_sprint = Append(@, Item(card, <<>>, Missing))]
    ELSE [acc EXCEPT !.new_backlog = Append(@, Item(card, <<>>, Missing))]

\* the branch of a key that is in last_state
KnownCard(acc, card, previous) ==
    LET diffs == detect_changes(card, previous)
    IN  IF diffs # <<>>
        THEN [acc EXCEPT !.changed =
                 Append(@, Item(card, diffs, Get(previous.status, None)))]
        ELSE acc

\* one iteration of the loop of main over raw_issues
ClassifyStep(acc, rawi, last) ==
    LET card == normalize_issue(rawi)
    IN  IF card.exc # "" THEN [acc EXCEPT !.exc = card.exc]
        ELSE LET stored == [acc EXCEPT !.current_state =
                               DictPut(@, card.key, CurrentEntry(card))]
             IN  IF ~KeyIn(card.key, last)
                 THEN NewCard(stored, card)
                 ELSE KnownCard(stored, card, last[card.key.s])

RECURSIVE ClassifyLoop(_, _, _, _)
\* the loop from position n on; an exception ends it
ClassifyLoop(acc, raws, n, last) ==
    IF n > Len(raws) \/ acc.exc # "" THEN acc
    ELSE ClassifyLoop(ClassifyStep(acc, raws[n], last), raws, n + 1, last)

\* main: the snapshot is loaded and every raw issue is normalised, stored and
\* classified; an exception of normalize_issue is not caught and ends the run
Classify ==
    /\ pc = "classify"
    /\ LET last == load_last_state(snapshot_file)
           acc == ClassifyLoop(ClassifyLocals(last), raw_issues, 1, last)
       IN  /\ file_ops' = Append(file_ops, "read")
           /\ last_state' = last
           /\ current_state' = acc.current_state
           /\ new_sprint' = acc.new_sprint
           /\ new_backlog' = acc.new_backlog
           /\ changed' = acc.changed
           /\ pc' = IF acc.exc # "" THEN "crashed" ELSE "gate"
    /\ UNCHANGED <<jira_config, snapshot_file, committed, queryVars,
                   raw_issues, new_epics, ai_summary>>
    /\ UNCHANGED <<chunkVars, otherThanRun>>

-----------------------------------------------------------------------------
(* Notification: build_slack_payload *)

Block(type, key, note) == [type |-> type, key |-> key, note |-> note]

\* the text an f-string shows for a value
Shown(v) ==
    CASE v.t = "str" -> v.s
      [] v.t = "none" -> "None"
      [] OTHER -> "?"

\* the note "(antes: `prev`)" of a status line
BeforeNote(prev_status) == "before " \o Shown(prev_status)

\* the status line of _issue_card_block: with the previous status, with
\* "sem mudança de status", or with nothing after the status
StatusNote(card, prev_status) ==
    IF Truthy(prev_status) /\ ~PyEq(prev_status, card.status) THEN BeforeNote(prev_status)
    ELSE IF Truthy(prev_status) /\ PyEq(prev_status, card.status) THEN "no_change"
    ELSE "plain"

\* _issue_card_block(issue, changes, prev_status)
issue_card_block(card, changes, prev_status) ==
    Block("card", JsonKey(card.key), StatusNote(card, prev_status))

\* the label _group_by_epic files an item under
EpicLabel(item) ==
    IF item.issue.epic.t = "dict"
    THEN JsonKey(item.issue.epic.key)
    ELSE "sem epico"

\* the labels of the items in first-seen order: the keys of the dict
\* _group_by_epic fills with setdefault
GroupLabels(items) ==
    LET first == SelectSeq([i \in 1..Len(items) |-> i],
                     LAMBDA i : \A j \in 1..(i - 1) :
                                   EpicLabel(items[j]) # EpicLabel(items[i]))
    IN  [n \in 1..Len(first) |-> EpicLabel(items[first[n]])]

RECURSIVE GroupBlocks(_, _, _, _)
\* the blocks of the groups from label n on: a label and a card per item
GroupBlocks(items, labels, n, show_changes) ==
    IF n > Len(labels) THEN <<>>
    ELSE LET mine == SelectSeq(items, LAMBDA it : EpicLabel(it) = labels[n])
         IN  <<Block("context", labels[n], "")>>
             \o [i \in 1..Len(mine) |->
                    issue_card_block(mine[i].issue,
                        IF show_changes THEN mine[i].changes ELSE <<>>,
                        IF show_changes THEN Get(mine[i].prev_status, None) ELSE None)]
             \o GroupBlocks(items, labels, n + 1, show_changes)

\* _add_section(items, section_title, show_changes)
add_section(items, section_title, show_changes) ==
    IF items = <<>> THEN <<>>
    ELSE <<Block("section", section_title, "")>>
         \o GroupBlocks(items, GroupLabels(items), 1, show_changes)
         \o <<Block("divider", "", "")>>

\* build_slack_payload(new_sprint, new_backlog, changed, new_epics, ai_summary)
build_slack_payload(nsprint, nbacklog, chg, epics, ai) ==
    [ text   |-> Caption(0, 0),
      blocks |->
        << Block("header", "", ""), Block("context", "total", ""), Block("divider", "", "") >>
        \o ( CASE ai = "text" -> <<Block("section", "gemini", ""), Block("divider", "", "")>>
               [] ai = "error" -> <<Block("context", "gemini error", "")>>
               [] OTHER -> <<>> )
        \o ( IF epics # <<>>
             THEN <<Block("section", "epics", "")>>
                  \o [i \in 1..Len(epics) |-> issue_card_block(epics[i], <<>>, None)]
                  \o <<Block("divider", "", "")>>
             ELSE <<>> )
        \o add_section(nsprint, "new_sprint", FALSE)
        \o add_section(nbacklog, "new_backlog", FALSE)
        \o add_section(chg, "changed", TRUE)
        \o <<Block("context", "footer", "")>> ]

\* mutant: new epics alone are enough for a notification
NothingToReportButEpics(nsprint, nbacklog, chg) ==
    nsprint = <<>> /\ nbacklog = <<>> /\ chg = <<>> /\ new_epics = <<>>

\* not (new_sprint or new_backlog or changed)
NothingToReport(nsprint, nbacklog, chg) ==
    nsprint = <<>> /\ nbacklog = <<>> /\ chg = <<>>

\* main, nothing new and nothing changed: the snapshot is saved and main returns
SaveNoChanges ==
    /\ pc = "gate"
    /\ NothingToReport(new_sprint, new_backlog, changed)
    /\ snapshot_file' = save_current_state(current_state)
    /\ file_ops' = Append(file_ops, "write")
    /\ committed' = Commit(committed, raw_issues)
    /\ pc' = "done"
    /\ UNCHANGED <<jira_config, queryVars, raw_issues, new_epics, classVars, ai_summary>>
    /\ UNCHANGED <<chunkVars, otherThanRun>>

\* main, something to report: the summary is asked for when GEMINI_API_KEY is
\* set (it comes back as text or as the error sentinel), the payload is
\* built and send_alert is called
Notify ==
    /\ pc = "gate"
    /\ ~NothingToReport(new_sprint, new_backlog, changed)
    /\ \E ai \in {"none", "text", "error"} :
          /\ ai_summary' = ai
          /\ payload' = build_slack_payload(new_sprint, new_backlog, changed, new_epics, ai)
    /\ webhook' \in BOOLEAN
    /\ alert_pc' = "start"
    /\ pc' = "sending"
    /\ UNCHANGED <<pages, posted, page, chunked, next_block>>
    /\ UNCHANGED <<jira_config, snapshot_file, file_ops, committed, queryVars, raw_issues,
                   new_epics, classVars>>
    /\ UNCHANGED otherThanRun

\* main, after send_alert has returned: the snapshot is saved
SaveAfterAlert ==
    /\ pc = "sending"
    /\ alert_pc = "done"
    /\ snapshot_file' = save_current_state(current_state)
    /\ file_ops' = Append(file_ops, "write")
    /\ committed' = Commit(committed, raw_issues)
    /\ pc' = "done"
    /\ UNCHANGED chunkVars
    /\ UNCHANGED <<jira_config, queryVars, raw_issues, new_epics, classVars, ai_summary>>
    /\ UNCHANGED otherThanRun

\* no run is under way
RunIdle ==
    /\ pc = "idle"
    /\ jira_config = Config(PyStr("acme"), PyStr("bot@acme.io"), PyStr("token"))
    /\ snapshot_file \in {File("absent", EmptyDict), File("corrupt", EmptyDict)}
    /\ file_ops = <<>>
    /\ committed = NoCommit
    /\ issues_map = <<>>
    /\ sprint_issues = <<>>
    /\ backlog_issues = <<>>
    /\ issued = <<>>
    /\ failed = {}
    /\ raw_issues = <<>>
    /\ new_epics = <<>>
    /\ last_state = EmptyDict
    /\ current_state = EmptyDict
    /\ new_sprint = <<>>
    /\ new_backlog = <<>>
    /\ changed = <<>>
    /\ ai_summary = "none"

-----------------------------------------------------------------------------
(* Specifications *)

\* send_alert run on payloads of every length
ChunkInit == ChunkStart /\ NormIdle /\ DiffIdle /\ RunIdle

ChunkNext ==
    \/ AlertPrintOnly
    \/ AlertSinglePage
    \/ AlertChunkEnter
    \/ AlertChunkStep
    \/ AlertChunkReturn
    \/ AlertPost
    \/ AlertReturn

SpecChunk == ChunkInit /\ [][ChunkNext]_vars

\* normalize_issue applied to raw issues of every shape
NormInit ==
    /\ ChunkIdle
    /\ DiffIdle
    /\ RunIdle
    /\ raw \in NormRaws
    /\ norm_out = IssueRaise("")
    /\ weight = None
    /\ norm_pc = "start"

NormNext == Normalize

SpecNorm == NormInit /\ [][NormNext]_vars

\* extract_story_points applied to every choice of candidate fields
WeightInit ==
    /\ ChunkIdle
    /\ DiffIdle
    /\ RunIdle
    /\ raw \in WeightRaws
    /\ norm_out = IssueRaise("")
    /\ weight = None
    /\ norm_pc = "start"

WeightNext == ExtractStoryPoints

SpecWeight == WeightInit /\ [][WeightNext]_vars

\* detect_changes applied to every pair of a normalised issue and an entry
DiffInit ==
    /\ ChunkIdle
    /\ NormIdle
    /\ RunIdle
    /\ diff_current \in DiffCurrents
    /\ diff_previous \in DiffPreviouses
    /\ diff_changes = <<>>
    /\ diff_pc = "start"

DiffNext == DetectChanges

SpecDiff == DiffInit /\ [][DiffNext]_vars

\* runs of main, one after the other, starting without last_state.json or
\* with one that does not parse
Init ==
    /\ ChunkIdle
    /\ NormIdle
    /\ DiffIdle
    /\ RunIdle

\* (the payloads of these runs stay within SLACK_MAX_BLOCKS, so send_alert
\* never enters _chunk_blocks here; SpecChunk covers it)
Next ==
    \/ MainStart
    \/ MainConfigMissing
    \/ QuerySprint
    \/ QueryBacklog
    \/ QueryEpics
    \/ Classify
    \/ SaveNoChanges
    \/ Notify
    \/ AlertPrintOnly
    \/ AlertSinglePage
    \/ AlertPost
    \/ AlertReturn
    \/ SaveAfterAlert

Spec == Init /\ [][Next]_vars

\* main from the return of get_all_issues on, in a first run (no
\* last_state.json) over 1 to MaxCards issues: classification, the payload,
\* send_alert with its pagination, and the save
DeliverInit ==
    /\ ChunkIdle
    /\ NormIdle
    /\ DiffIdle
    /\ pc = "classify"
    /\ jira_config = Config(PyStr("acme"), PyStr("bot@acme.io"), PyStr("token"))
    /\ snapshot_file = File("absent", EmptyDict)
    /\ file_ops = <<>>
    /\ committed = NoCommit
    /\ issues_map = <<>>
    /\ sprint_issues = <<>>
    /\ backlog_issues = <<>>
    /\ issued = <<"sprint", "backlog", "epics">>
    /\ failed = {}
    /\ \E n \in 1..MaxCards : raw_issues = BulkRaws(n)
    /\ new_epics = <<>>
    /\ last_state = EmptyDict
    /\ current_state = EmptyDict
    /\ new_sprint = <<>>
    /\ new_backlog = <<>>
    /\ changed = <<>>
    /\ ai_summary = "none"

DeliverNext ==
    \/ Classify
    \/ Notify
    \/ AlertPrintOnly
    \/ AlertSinglePage
    \/ AlertChunkEnter
    \/ AlertChunkStep
    \/ AlertChunkReturn
    \/ AlertPost
    \/ AlertReturn
    \/ SaveAfterAlert

\* once the last post has been made nothing but the return of send_alert, a
\* print and the save are left of main: straight-line code that goes on
\* main from the return of get_all_issues to the call of send_alert, for one
\* issue K-1 and a last_state.json that is not there or holds an entry for
\* K-1: one a run stored, or one in which some tracked field is not there
CardInit ==
    /\ ChunkIdle
    /\ NormIdle
    /\ DiffIdle
    /\ pc = "classify"
    /\ jira_config = Config(PyStr("acme"), PyStr("bot@acme.io"), PyStr("token"))
    /\ \/ snapshot_file = File("absent", EmptyDict)
       \/ \E previous \in DiffPreviouses :
             snapshot_file = save_current_state([k \in {PyStr("K-1")} |-> previous])
    /\ file_ops = <<>>
    /\ committed = NoCommit
    /\ issues_map = <<>>
    /\ sprint_issues = <<>>
    /\ backlog_issues = <<>>
    /\ issued = <<"sprint", "backlog", "epics">>
    /\ failed = {}
    /\ \E r \in CardRaws : raw_issues = <<r>>
    /\ new_epics = <<>>
    /\ last_state = EmptyDict
    /\ current_state = EmptyDict
    /\ new_sprint = <<>>
    /\ new_backlog = <<>>
    /\ changed = <<>>
    /\ ai_summary = "none"

CardNext ==
    \/ Classify
    \/ SaveNoChanges
    \/ Notify

SpecCard == CardInit /\ [][CardNext]_vars

SpecDeliver ==
    /\ DeliverInit
    /\ [][DeliverNext]_vars
    /\ WF_vars(AlertReturn)
    /\ WF_vars(SaveAfterAlert)

-----------------------------------------------------------------------------
(* Properties of the pagination, checked under SpecChunk *)

CeilDiv(a, b) == (a + b - 1) \div b

RECURSIVE ConcatContent(_, _)
\* the non-header blocks of the pages from page i on, in page order
ConcatContent(ps, i) ==
    IF i > Len(ps) THEN <<>>
    ELSE Drop(ps[i].blocks, HEADER_LEN) \o ConcatContent(ps, i + 1)

\* send_alert has built its pages
PagesBuilt == webhook /\ alert_pc \in {"posting", "done"}

\* C1: a payload of L blocks (header of 3, cap 48) is delivered in
\* ceil((L - 3) / (48 - 3)) pages when L > 48 and in exactly one page
\* otherwise, and no page holds more than 48 blocks.
C1_PageCountAndSize ==
    PagesBuilt =>
        LET L == Len(payload.blocks)
        IN  /\ Len(pages) = IF L > SLACK_MAX_BLOCKS
                            THEN CeilDiv(L - HEADER_LEN, SLACK_MAX_BLOCKS - HEADER_LEN)
                            ELSE 1
            /\ \A i \in 1..Len(pages) : Len(pages[i].blocks) <= SLACK_MAX_BLOCKS

\* a payload of 139 blocks has been split into 4 pages, one block past 3 full pages
C1_Witness ==
    /\ PagesBuilt
    /\ alert_pc = "done"
    /\ Len(payload.blocks) = 3 * (SLACK_MAX_BLOCKS - HEADER_LEN) + HEADER_LEN + 1
    /\ Len(pages) = 4

\* C2: when the payload is split, every page starts with the whole header in
\* its order and the non-header blocks of the pages, concatenated in page
\* order, are the payload's non-header blocks; 123 blocks give pages of 48,
\* 48 and 33 blocks.
C2_HeaderRepeatedContentKept ==
    (PagesBuilt /\ Len(pages) > 1) =>
        /\ \A i \in 1..Len(pages) :
              Take(pages[i].blocks, HEADER_LEN) = Take(payload.blocks, HEADER_LEN)
        /\ ConcatContent(pages, 1) = Drop(payload.blocks, HEADER_LEN)
        /\ Len(payload.blocks) = 123 =>
              [i \in 1..Len(pages) |-> Len(pages[i].blocks)] = <<48, 48, 33>>

\* the scenario of 120 content blocks and 3 header blocks has been paginated
C2_Witness ==
    /\ PagesBuilt
    /\ Len(payload.blocks) = 123
    /\ Len(pages) = 3
    /\ Len(pages[3].blocks) = 33

-----------------------------------------------------------------------------
(* Properties of the weight resolution, checked under SpecWeight *)

\* the least index of a non-empty set of indices
Least(S) == CHOOSE i \in S : \A j \in S : i <= j

\* the positions in STORY_POINTS_FIELDS whose key is in the raw record
PresentAt(r) ==
    {i \in 1..Len(STORY_POINTS_FIELDS) : r.fields.sp[STORY_POINTS_FIELDS[i]] # Missing}

\* the positions in STORY_POINTS_FIELDS holding a number greater than zero
PositiveAt(r) ==
    {i \in 1..Len(STORY_POINTS_FIELDS) :
        LET v == r.fields.sp[STORY_POINTS_FIELDS[i]]
        IN  v.t \in {"int", "float", "bool"} /\ (v.s = "inf" \/ v.n > 0)}

\* C3 as stated: the weight is the value of the first candidate field whose
\* key is present in the raw record, whatever that value is (None when no
\* candidate is present).
C3_FirstPresentWins ==
    norm_pc = "done" =>
        weight = IF PresentAt(raw) = {} THEN None
                 ELSE raw.fields.sp[STORY_POINTS_FIELDS[Least(PresentAt(raw))]]

\* C3 amended: the weight is the value of the first candidate field that
\* holds a number greater than zero, as an integer when it is integral, and
\* None when no candidate holds one (the resolution raises when that first
\* number is infinite); of two candidates holding positive numbers the
\* earlier one is chosen.
C3_FirstPositiveNumberWins ==
    norm_pc = "done" =>
        IF PositiveAt(raw) = {} THEN weight = None
        ELSE LET v == raw.fields.sp[STORY_POINTS_FIELDS[Least(PositiveAt(raw))]]
             IN  CASE v.s = "inf" -> weight = Raise("OverflowError")
                   [] v.s # "inf" /\ v.n % 2 = 0 ->
                        weight = [t |-> "int", s |-> "", n |-> v.n]
                   [] OTHER -> weight = v

\* two candidates are present, the earlier holds zero and the later 2.5: the
\* later one has been chosen
C3_Witness ==
    /\ norm_pc = "done"
    /\ raw.fields.sp[STORY_POINTS_FIELDS[1]] = PyInt(0)
    /\ raw.fields.sp[STORY_POINTS_FIELDS[2]] = PyFloat(5)
    /\ weight = PyFloat(5)

-----------------------------------------------------------------------------
(* Properties of the normalisation, checked under SpecNorm *)

\* C4: normalize_issue returns for every raw record without raising, and the
\* key, summary and status it returns are not None.
C4_NormalizeNeverFails ==
    norm_pc = "done" =>
        /\ norm_out.exc = ""
        /\ norm_out.key # None
        /\ norm_out.summary # None
        /\ norm_out.status # None

-----------------------------------------------------------------------------
(* Properties of the change detection, checked under SpecDiff *)

TrackedFields == {"status", "assignee", "story_points", "sprint"}

\* the strings of `changes` that are about field f
ChangesOf(f) == SelectSeq(diff_changes, LAMBDA c : c.field = f)

\* the previous value of field f as detect_changes reads it
PrevValue(f) ==
    LET v == diff_previous[f] IN IF v = Missing THEN None ELSE v

\* a value that is there: not null (nor an empty name)
Present(v) == v # None /\ v # PyStr("")

\* the policy of the claim for field f: no string when the values are equal;
\* exactly one when they differ, worded as set when the previous value was
\* absent and the current is present, as removed (showing the previous
\* value) when the previous was present and the current is absent, and as a
\* transition previous -> current when both are present
FollowsPolicy(f) ==
    LET p == PrevValue(f)
        c == diff_current[f]
        cs == ChangesOf(f)
    IN  IF c = p THEN cs = <<>>
        ELSE /\ Len(cs) = 1
             /\ (~Present(p) /\ Present(c)) => (cs[1].kind = "set" /\ cs[1].cur = c)
             /\ (Present(p) /\ ~Present(c)) => (cs[1].kind = "removed" /\ cs[1].prev = p)
             /\ (Present(p) /\ Present(c)) =>
                    (cs[1].kind = "transition" /\ cs[1].prev = p /\ cs[1].cur = c)

\* the policy for the status: every difference is worded as a transition,
\* showing "?" for a previous status that is not in the entry
StatusAlwaysTransition ==
    LET c == diff_current.status
        cs == ChangesOf("status")
    IN  IF c = PrevValue("status") THEN cs = <<>>
        ELSE /\ Len(cs) = 1
             /\ cs[1].kind = "transition"
             /\ cs[1].cur = c
             /\ cs[1].prev = IF diff_previous.status = Missing THEN PyStr("?")
                             ELSE diff_previous.status

\* C7 as stated: status, owner, weight and bucket each follow the policy
\* set / removed / transition, independently of one another.
C7_PerFieldPolicy ==
    diff_pc = "done" => \A f \in TrackedFields : FollowsPolicy(f)

\* C7 amended: owner, weight and bucket each follow the policy set / removed
\* / transition (absent meaning null, or empty for owner and bucket); a
\* differing status always gives exactly one transition string, also when
\* the previous or the current status is absent; equal values give none.
C7_PolicyExceptStatus ==
    diff_pc = "done" =>
        /\ \A f \in TrackedFields \ {"status"} : FollowsPolicy(f)
        /\ StatusAlwaysTransition

\* the estimate was absent and is now 3, the owner went from ana to bob, the
\* sprint was left and the status went from null to Open: four strings
C7_Witness ==
    /\ diff_pc = "done"
    /\ diff_previous.story_points = None /\ diff_current.story_points = PyInt(3)
    /\ diff_previous.assignee = PyStr("ana") /\ diff_current.assignee = PyStr("bob")
    /\ diff_previous.sprint = PyStr("S1") /\ diff_current.sprint = None
    /\ diff_previous.status = None /\ diff_current.status = PyStr("Open")
    /\ [i \in 1..Len(diff_changes) |-> diff_changes[i].kind]
          = <<"transition", "transition", "set", "removed">>

-----------------------------------------------------------------------------
(* Properties of the runs of main, checked under Spec *)

\* the records of a list of raw issues
RecordsOf(issues) == {issues[i] : i \in 1..Len(issues)}

\* the classification of this run is known and not yet committed
ClassifiedNotSaved == pc \in {"gate", "sending"}

\* the classification of this run is known
Classified == pc \in {"gate", "sending", "done"}

\* how many items of a list are about key k
CountIn(items, k) == Cardinality({i \in 1..Len(items) : items[i].issue.key = k})

\* the keys the items of a list are about
ItemKeys(items) == {items[i].issue.key : i \in 1..Len(items)}

\* C5: a run over exactly the records of the run that committed the snapshot
\* it loads puts no record in new_sprint, new_backlog or changed.
C5_SameRecordsNothingReported ==
    ( /\ ClassifiedNotSaved
      /\ committed.run
      /\ RecordsOf(raw_issues) = RecordsOf(committed.records) )
    => (new_sprint = <<>> /\ new_backlog = <<>> /\ changed = <<>>)

\* a run over the same two records as the committed one has been classified
C5_Witness ==
    /\ ClassifiedNotSaved
    /\ committed.run
    /\ Len(raw_issues) = 2
    /\ RecordsOf(raw_issues) = RecordsOf(committed.records)
    /\ DOMAIN last_state = Keys
    /\ \E i \in 1..2 : last_state[raw_issues[i].key.s].sprint = PyStr("S1")

C8_SnapshotIsCurrentRun ==
    pc = "done" =>
        /\ snapshot_file.state = "ok"
        /\ DOMAIN snapshot_file.data = {k.s : k \in KeysOf(raw_issues)}
        /\ \A i \in 1..Len(raw_issues) :
              LET card == normalize_issue(raw_issues[i])
                  kept == snapshot_file.data[card.key.s]
              IN  /\ PyValue(kept.status) = card.status
                  /\ PyValue(kept.summary) = card.summary
                  /\ PyValue(kept.assignee) = card.assignee
                  /\ PyValue(kept.story_points) = card.story_points
                  /\ PyValue(kept.sprint) = card.sprint
                  /\ PyEpic(kept.epic) = card.epic
        /\ \A name \in DOMAIN last_state :
              PyStr(name) \notin KeysOf(raw_issues) =>
                  /\ name \notin DOMAIN snapshot_file.data
                  /\ PyStr(name) \notin ItemKeys(new_sprint) \cup ItemKeys(new_backlog)
                                          \cup ItemKeys(changed)

\* a run that loaded a snapshot with K-1 and K-2 and got only K-2 is done
C8_Witness ==
    /\ pc = "done"
    /\ DOMAIN last_state = Keys
    /\ KeysOf(raw_issues) = {PyStr("K-2")}
    /\ DOMAIN snapshot_file.data = {"K-2"}

\* both issue queries of this run have returned
BothQueriesReturned == pc = "query_epics" /\ failed = {}

\* the record issues_map holds for key k (there is one)
MapRecord(k) == issues_map[CHOOSE n \in 1..Len(issues_map) : issues_map[n].key = k]

\* the record a query result holds for key k (there is one)
ResultRecord(res, k) == res[CHOOSE n \in 1..Len(res) : res[n].key = k]

\* how many records issues_map holds for key k
MapCount(k) == Cardinality({n \in 1..Len(issues_map) : issues_map[n].key = k})

\* C9 as stated: a key returned by the sprint query and by the backlog query
\* is in the merged set once, with the record of the sprint query.
C9_EarlierRecordKept ==
    BothQueriesReturned =>
        \A k \in KeysOf(sprint_issues) \cap KeysOf(backlog_issues) :
            /\ MapCount(k) = 1
            /\ MapRecord(k) = ResultRecord(sprint_issues, k)

\* C9 amended: a key returned by the sprint query and by the backlog query
\* is in the merged set once, with the record of the backlog query (the
\* later one).
C9_LaterRecordKept ==
    BothQueriesReturned =>
        \A k \in KeysOf(sprint_issues) \cap KeysOf(backlog_issues) :
            /\ MapCount(k) = 1
            /\ MapRecord(k) = ResultRecord(backlog_issues, k)

\* K-1 came back from both queries, in sprint S1 from the first and without
\* sprint from the second
C9_Witness ==
    /\ BothQueriesReturned
    /\ PyStr("K-1") \in KeysOf(sprint_issues) \cap KeysOf(backlog_issues)
    /\ ResultRecord(sprint_issues, PyStr("K-1")) = RunRaw("K-1", "open_s1")
    /\ ResultRecord(backlog_issues, PyStr("K-1")) = RunRaw("K-1", "open_backlog")

\* C10: a failed query counts as an empty result and stops nothing: the
\* three queries are issued in order whichever failed, the merged set holds
\* the keys of the queries that did not fail, a failed epic query leaves no
\* epics, only a record that does not normalise (never a failed query) ends
\* the run early, and a run that is done has persisted its snapshot.
C10_QueryFailuresIsolated ==
    /\ pc = "query_backlog" => issued = <<"sprint">>
    /\ pc = "query_epics" =>
          /\ issued = <<"sprint", "backlog">>
          /\ KeysOf(issues_map) =
                (IF "sprint" \in failed THEN {} ELSE KeysOf(sprint_issues))
                \cup (IF "backlog" \in failed THEN {} ELSE KeysOf(backlog_issues))
    /\ pc \in {"classify", "gate", "sending", "done", "crashed"} =>
          /\ issued = <<"sprint", "backlog", "epics">>
          /\ "epics" \in failed => new_epics = <<>>
    /\ pc = "crashed" =>
          \E i \in 1..Len(raw_issues) : normalize_issue(raw_issues[i]).exc # ""
    /\ pc = "done" =>
          /\ snapshot_file.state = "ok"
          /\ committed.records = raw_issues

\* the sprint and epic queries failed, the backlog query returned two
\* issues, and the run is done with both in the snapshot
C10_Witness ==
    /\ pc = "done"
    /\ failed = {"sprint", "epics"}
    /\ Len(raw_issues) = 2
    /\ DOMAIN snapshot_file.data = Keys

-----------------------------------------------------------------------------
(* Properties of the delivery inside a run, checked under SpecDeliver *)

\* the posts made so far are those of pages 1, 2, ... in this order, one each
PostedInOrder ==
    /\ Len(posted) <= Len(pages)
    /\ \A i \in 1..Len(posted) : posted[i].page = i

\* send_alert has posted and returned to main
Delivered == pc = "sending" /\ webhook /\ alert_pc = "done"

\* the last post of the run has been made
LastPostMade ==
    /\ pc = "sending" /\ webhook /\ alert_pc = "posting"
    /\ Len(posted) = Len(pages)

\* the run is over and last_state.json holds its snapshot
SnapshotSaved ==
    /\ pc = "done"
    /\ snapshot_file = save_current_state(current_state)

\* C11: when a notification is split into N pages, a post of every page
\* 1..N is attempted in order, exactly once, whichever of the earlier posts
\* failed; main leaves send_alert only towards the save, and once the last
\* post has been made the new snapshot does get persisted, also when every
\* post failed.
C11_AllPagesTriedThenSaved ==
    /\ [](PostedInOrder /\ (Delivered => Len(posted) = Len(pages)))
    /\ [][pc = "sending" /\ pc' # "sending" =>
            /\ Len(posted) = Len(pages)
            /\ pc' = "done"
            /\ snapshot_file' = save_current_state(current_state)]_vars
    /\ (LastPostMade ~> SnapshotSaved)

\* a notification of three pages whose posts all failed, and the snapshot of
\* the run saved after them
C11_Witness ==
    /\ SnapshotSaved
    /\ webhook
    /\ Len(pages) = 3
    /\ Len(posted) = 3
    /\ \A i \in 1..3 : posted[i] = Post(i, FALSE)
    /\ DOMAIN snapshot_file.data = {BulkKey(i) : i \in 1..Len(raw_issues)}
-----------------------------------------------------------------------------
(* Properties of the configuration check, checked under Spec *)

\* a required setting of the run is absent: not set, or set to nothing
SettingMissing ==
    \E v \in {jira_config.domain, jira_config.email, jira_config.token} :
        v \in {None, PyStr("")}

\* C12: when any of JIRA_DOMAIN, JIRA_EMAIL and JIRA_API_TOKEN is missing,
\* the run ends before any tracker query is issued, posts no page, and
\* neither reads nor writes last_state.json, which stays as it was.
C12_MissingConfigNoEffect ==
    /\ [](SettingMissing =>
            /\ pc = "aborted"
            /\ issued = <<>>
            /\ alert_pc = "idle" /\ pages = <<>> /\ posted = <<>>
            /\ file_ops = <<>>)
    /\ [][SettingMissing' => snapshot_file' = snapshot_file]_vars

\* a run without the API token only, after a run that saved a snapshot: it
\* has ended and the snapshot is still the one of the earlier run
C12_Witness ==
    /\ pc = "aborted"
    /\ Truthy(jira_config.domain) /\ Truthy(jira_config.email)
    /\ jira_config.token = None
    /\ committed.run
    /\ snapshot_file.state = "ok"
    /\ DOMAIN snapshot_file.data = Keys
    /\ issued = <<>> /\ posted = <<>> /\ file_ops = <<>>
-----------------------------------------------------------------------------
(* Properties of the cards of a notification, checked under SpecCard *)

\* the note on the status line of the card of an item in the payload
CardNote(item) ==
    LET n == CHOOSE n \in 1..Len(payload.blocks) :
                 /\ payload.blocks[n].type = "card"
                 /\ payload.blocks[n].key = JsonKey(item.issue.key)
    IN  payload.blocks[n].note

\* the status the loaded snapshot holds for the key of an item (None when
\* its entry has no status)
SnapshotStatus(item) == Get(last_state[item.issue.key.s].status, None)

\* the payload of the run has been built
PayloadBuilt == pc = "sending"

\* C13: the card of every item of `changed` shows the previous status on its
\* status line whenever the current status differs from the status in the
\* loaded snapshot, and "no status change" whenever the two are equal and
\* only other fields changed; the cards of new items carry no note.
C13_StatusAnnotated ==
    PayloadBuilt =>
        /\ \A i \in 1..Len(changed) :
              CardNote(changed[i]) =
                 IF ~PyEq(changed[i].issue.status, SnapshotStatus(changed[i]))
                 THEN BeforeNote(SnapshotStatus(changed[i]))
                 ELSE "no_change"
        /\ \A i \in 1..Len(new_sprint) : CardNote(new_sprint[i]) = "plain"
        /\ \A i \in 1..Len(new_backlog) : CardNote(new_backlog[i]) = "plain"
-----------------------------------------------------------------------------
(* Properties of the notification gate, checked under Spec *)

\* the run is past the test of the three lists
PastGate == pc \in {"sending", "done"}

\* the three lists of the run are all empty
ListsEmpty == new_sprint = <<>> /\ new_backlog = <<>> /\ changed = <<>>

\* C14: a run whose new_sprint, new_backlog and changed are all empty builds
\* no payload, calls neither send_alert nor the summary, and saves the
\* snapshot, new epics or not; a run in which one of the three is not empty
\* builds the payload of its lists and calls send_alert, which posts every
\* page when the webhook is configured.
C14_GatedOnThreeLists ==
    PastGate =>
        IF ListsEmpty
        THEN /\ pc = "done"
             /\ payload.blocks = <<>>
             /\ alert_pc = "idle" /\ pages = <<>> /\ posted = <<>>
             /\ ai_summary = "none"
             /\ snapshot_file = save_current_state(current_state)
             /\ file_ops = <<"read", "write">>
        ELSE /\ payload = build_slack_payload(new_sprint, new_backlog, changed,
                                              new_epics, ai_summary)
             /\ alert_pc # "idle"
             /\ pc = "done" =>
                   /\ alert_pc = "done"
                   /\ webhook => Len(pages) >= 1 /\ Len(posted) = Len(pages)

\* a run that found a new epic and nothing else has ended: nothing was built
\* or posted, and its snapshot has been saved
C14_Witness ==
    /\ pc = "done"
    /\ ListsEmpty
    /\ new_epics # <<>>
    /\ payload.blocks = <<>> /\ posted = <<>> /\ alert_pc = "idle"
    /\ file_ops = <<"read", "write">>
    /\ snapshot_file.state = "ok"
-----------------------------------------------------------------------------
(* Properties of a key that comes back, checked under Spec *)

\* key k was among the records of a completed run and is not among those of
\* the latest completed run
Dropped(k) == committed.run /\ k \in committed.dropped

\* C15: a key that a completed run had, that the completed runs since did
\* not have, and that is among the records of this run is classified as new
\* by it (in new_sprint or in new_backlog, once) and not as changed, whatever
\* its fields were and are.
C15_ReappearingKeyIsNew ==
    ClassifiedNotSaved =>
        \A k \in KeysOf(raw_issues) :
            Dropped(k) =>
                /\ CountIn(new_sprint, k) + CountIn(new_backlog, k) = 1
                /\ CountIn(changed, k) = 0

\* K-1 was in a completed run, was not in the latest one, which had K-2, and
\* is back in this run next to K-2: it is in new_sprint
C15_Witness ==
    /\ ClassifiedNotSaved
    /\ Dropped(PyStr("K-1"))
    /\ KeysOf(committed.records) = {PyStr("K-2")}
    /\ KeysOf(raw_issues) = {PyStr("K-1"), PyStr("K-2")}
    /\ DOMAIN last_state = {"K-2"}
    /\ CountIn(new_sprint, PyStr("K-1")) = 1
=============================================================================
